---- MODULE Spec2Model ----
(***************************************************************************)
(* WebGL-Experiments: the shader set-up and single draw of a square.       *)
(*                                                                         *)
(* Two scripts are modelled: src/main.js (white square, ends after the     *)
(* location queries) and src/unnamed/part_000 (colour uniform, draws).     *)
(* The WebGL context is modelled as a backend that records every call and  *)
(* keeps the objects it allocated; what the backend answers (compile and   *)
(* link status, info logs, locations, Math.random, whether an unchecked    *)
(* call fails) is chosen nondeterministically.                             *)
(***************************************************************************)
EXTENDS Integers, Sequences, FiniteSets, TLC

\* Math.random() is modelled as k / RandDenom for k in 0 .. RandDenom - 1.
RandDenom == 4

\* var s = 255 in randomColour, and the literal 255 it divides by.
ColourScale == 255
ColourDivisor == 255

\* const numComponents = 2, stride = 0, offset = 0 in drawScene;
\* gl.drawArrays(gl.TRIANGLE_STRIP, 0, 4).
numComponents == 2
stride == 0
offset == 0
DrawFirst == 0
DrawCount == 4

\* const positions = [-1.0, 1.0, 1.0, 1.0, -1.0, -1.0, 1.0, -1.0]
positions == <<-1, 1, 1, 1, -1, -1, 1, -1>>

\* The two shader sources of each script, by name.
vertexShader == "vertexShader"
fragmentShader == "fragmentShader"

\* Info logs the backend may report for a shader or a program.
InfoLogs == {"ERROR: 0:1: syntax error", "ERROR: varyings do not match"}

\* Locations the backend may answer for aVertexPosition: -1 when it is not active.
AttribLocations == {-1, 0}

\* The uniform names each script queries.
UniformNames(v) ==
  IF v = "colour" THEN {"uProjectionMatrix", "uModelViewMatrix", "colorMatrix"}
  ELSE {"uProjectionMatrix", "uModelViewMatrix"}

Variants == {"main", "colour"}

VARIABLES variant, pc, gl, shaderProgram, programInfo, buffers, error

vars == <<variant, pc, gl, shaderProgram, programInfo, buffers, error>>

----------------------------------------------------------------------------
(* The recording backend *)

Call(g, fn, args) == [g EXCEPT !.calls = Append(@, [fn |-> fn, args |-> args])]

SetError(g, ok) == IF ok \/ g.error # "NO_ERROR" THEN g ELSE [g EXCEPT !.error = "GL_ERROR"]

glCreateShader(g, type) ==
  [Call(g, "createShader", <<type>>) EXCEPT
     !.shaders = @ @@ (g.nextId :> [type |-> type, source |-> "", compiled |-> FALSE, log |-> ""]),
     !.nextId = @ + 1]

glShaderSource(g, shader, source) ==
  [Call(g, "shaderSource", <<shader, source>>) EXCEPT !.shaders[shader].source = source]

\* compileShader: the backend compiles and keeps, per shader, what it reported
\* (g.compiled outlives the shader object).
glCompileShader(g, shader, ok, log) ==
  [Call(g, "compileShader", <<shader>>) EXCEPT
     !.shaders[shader].compiled = ok, !.shaders[shader].log = log,
     !.compiled = @ @@ (shader :> [type |-> g.shaders[shader].type, ok |-> ok, log |-> log])]

\* getShaderParameter(shader, COMPILE_STATUS) and getShaderInfoLog(shader): the
\* value answered; a deleted shader answers false and an empty log.
CompileStatus(g, shader) == shader \in DOMAIN g.shaders /\ g.shaders[shader].compiled

ShaderInfoLog(g, shader) == IF shader \in DOMAIN g.shaders THEN g.shaders[shader].log ELSE ""

glDeleteShader(g, shader) ==
  [Call(g, "deleteShader", <<shader>>) EXCEPT
     !.shaders = [s \in DOMAIN g.shaders \ {shader} |-> g.shaders[s]],
     !.deletedShaders = @ \cup {shader}]

glCreateProgram(g) ==
  [Call(g, "createProgram", <<>>) EXCEPT
     !.programs = @ @@ (g.nextId :> [attached |-> {}, linked |-> FALSE, log |-> ""]),
     !.nextId = @ + 1]

glAttachShader(g, program, shader) ==
  [Call(g, "attachShader", <<program, shader>>) EXCEPT !.programs[program].attached = @ \cup {shader}]

glLinkProgram(g, program, ok, log) ==
  [Call(g, "linkProgram", <<program>>) EXCEPT
     !.programs[program].linked = ok, !.programs[program].log = log]

LinkStatus(g, program) == program \in DOMAIN g.programs /\ g.programs[program].linked

ProgramInfoLog(g, program) == IF program \in DOMAIN g.programs THEN g.programs[program].log ELSE ""

glCreateBuffer(g) ==
  [Call(g, "createBuffer", <<>>) EXCEPT
     !.buffers = @ @@ (g.nextId :> [data |-> <<>>, usage |-> ""]),
     !.nextId = @ + 1]

glBindBuffer(g, target, buffer) ==
  [Call(g, "bindBuffer", <<target, buffer>>) EXCEPT !.arrayBuffer = buffer]

\* bufferData writes the bound buffer; a failed upload (ok = FALSE) only sets the
\* context's error flag, which the scripts never read.
glBufferData(g, target, data, usage, ok) ==
  LET h == Call(g, "bufferData", <<target, data, usage>>)
  IN IF ok /\ g.arrayBuffer \in DOMAIN g.buffers
       THEN [h EXCEPT !.buffers[g.arrayBuffer] = [data |-> data, usage |-> usage]]
       ELSE SetError(h, FALSE)

\* getAttribLocation / getUniformLocation: the backend answers; the call is recorded.
glGetAttribLocation(g, program, name) == Call(g, "getAttribLocation", <<program, name>>)

glGetUniformLocation(g, program, name) == Call(g, "getUniformLocation", <<program, name>>)

\* The location object of an active uniform is modelled by the uniform's name,
\* a missing one by "null".
UniformLocation(active, name) == IF name \in active THEN name ELSE "null"

\* vertexAttribPointer / enableVertexAttribArray with index -1 raise INVALID_VALUE
\* on the context's error flag and return normally.
glVertexAttribPointer(g, index, size, type, normalized, strd, offs) ==
  SetError(Call(g, "vertexAttribPointer", <<index, size, type, normalized, strd, offs>>),
           index >= 0 /\ g.arrayBuffer \in DOMAIN g.buffers)

glEnableVertexAttribArray(g, index) ==
  LET h == Call(g, "enableVertexAttribArray", <<index>>)
  IN IF index >= 0 THEN [h EXCEPT !.enabledAttribs = @ \cup {index}] ELSE SetError(h, FALSE)

glUseProgram(g, program) ==
  LET h == Call(g, "useProgram", <<program>>)
  IN IF LinkStatus(g, program) THEN [h EXCEPT !.currentProgram = program] ELSE SetError(h, FALSE)

\* A uniform upload: a null location is ignored; without a current program, or when
\* the backend rejects it (ok = FALSE), only the error flag is set.
UniformUpload(h, location, value, ok) ==
  IF location = "null" THEN h
  ELSE IF h.currentProgram = 0 \/ ~ok THEN SetError(h, FALSE)
  ELSE [h EXCEPT !.uniforms = [n \in DOMAIN @ \cup {location} |-> IF n = location THEN value ELSE @[n]]]

glUniformMatrix4fv(g, location, transpose, value, ok) ==
  UniformUpload(Call(g, "uniformMatrix4fv", <<location, transpose, value>>), location, value, ok)

glUniform3f(g, location, x, y, z, ok) ==
  UniformUpload(Call(g, "uniform3f", <<location, x, y, z>>), location, <<x, y, z>>, ok)

glDrawArrays(g, mode, first, count, ok) ==
  LET h == Call(g, "drawArrays", <<mode, first, count>>)
  IN IF ok /\ g.currentProgram # 0 THEN [h EXCEPT !.frames = @ + 1] ELSE SetError(h, FALSE)

----------------------------------------------------------------------------
(* The functions of the scripts *)

\* Math.round(num / den) for den > 0: floor(num / den + 1/2).
MathRound(num, den) == (2 * num + den) \div (2 * den)

\* randomColour(): three draws of Math.random, rnd[i] / RandDenom each.
\* Fault variant: the division by 255 left out.
randomColourUnscaled(rnd) ==
  [R |-> MathRound(rnd[1] * ColourScale, RandDenom),
   G |-> MathRound(rnd[2] * ColourScale, RandDenom),
   B |-> MathRound(rnd[3] * ColourScale, RandDenom)]

randomColour(rnd) ==
  [R |-> MathRound(rnd[1] * ColourScale, RandDenom * ColourDivisor),
   G |-> MathRound(rnd[2] * ColourScale, RandDenom * ColourDivisor),
   B |-> MathRound(rnd[3] * ColourScale, RandDenom * ColourDivisor)]

\* An error message is the sequence of the template's parts.
CompileMessage(log) == <<"An error occured compiling the shaders: ", log>>

LinkMessage(log) == <<"Unable to initialize the shader program: ", log>>

\* What a function call comes to: the backend after it, whether it threw, the
\* Error's message, and the value returned.
Returned(g, ret) == [g |-> g, threw |-> FALSE, msg |-> <<>>, ret |-> ret]

Thrown(g, msg) == [g |-> g, threw |-> TRUE, msg |-> msg, ret |-> 0]

\* loadShaders(gl, type, source); ok and log are the backend's compile result.
\* Fault variant: the failed shader is not deleted.
loadShadersNoDelete(g, type, source, ok, log) ==
  LET shader == g.nextId
      g1 == glCompileShader(glShaderSource(glCreateShader(g, type), shader, source), shader, ok, log)
      g2 == Call(g1, "getShaderParameter", <<shader, "COMPILE_STATUS">>)
  IN IF ~CompileStatus(g2, shader)
       THEN LET g3 == Call(g2, "getShaderInfoLog", <<shader>>)
                err == CompileMessage(ShaderInfoLog(g2, shader))
                g4 == Call(g3, "console.error", <<err>>)
            IN Thrown(g4, err)
       ELSE Returned(g2, shader)

loadShaders(g, type, source, ok, log) ==
  LET shader == g.nextId
      g1 == glCompileShader(glShaderSource(glCreateShader(g, type), shader, source), shader, ok, log)
      g2 == Call(g1, "getShaderParameter", <<shader, "COMPILE_STATUS">>)
  IN IF ~CompileStatus(g2, shader)
       THEN LET g3 == Call(g2, "getShaderInfoLog", <<shader>>)
                err == CompileMessage(ShaderInfoLog(g2, shader))
                g4 == Call(g3, "console.error", <<err>>)
                g5 == glDeleteShader(g4, shader)
            IN Thrown(g5, err)
       ELSE Returned(g2, shader)

\* initShaderProgram(gl, vertexShaderSource, fragmentShaderSource); o holds the
\* backend's compile and link results.
\* Fault variant: LINK_STATUS is not checked.
initShaderProgramNoLinkCheck(g, vertexShaderSource, fragmentShaderSource, o) ==
  LET v == loadShaders(g, "VERTEX_SHADER", vertexShaderSource, o.vOK, o.vLog)
  IN IF v.threw THEN v
     ELSE LET f == loadShaders(v.g, "FRAGMENT_SHADER", fragmentShaderSource, o.fOK, o.fLog)
          IN IF f.threw THEN f
             ELSE LET program == f.g.nextId
                      g1 == glAttachShader(glAttachShader(glCreateProgram(f.g), program, v.ret), program, f.ret)
                      g2 == glLinkProgram(g1, program, o.lOK, o.lLog)
                  IN Returned(g2, program)

\* Fault variant: the vertex shader is deleted when the fragment stage fails.
initShaderProgramCleanup(g, vertexShaderSource, fragmentShaderSource, o) ==
  LET v == loadShaders(g, "VERTEX_SHADER", vertexShaderSource, o.vOK, o.vLog)
  IN IF v.threw THEN v
     ELSE LET f == loadShaders(v.g, "FRAGMENT_SHADER", fragmentShaderSource, o.fOK, o.fLog)
          IN IF f.threw THEN Thrown(glDeleteShader(f.g, v.ret), f.msg)
             ELSE LET program == f.g.nextId
                      g1 == glAttachShader(glAttachShader(glCreateProgram(f.g), program, v.ret), program, f.ret)
                      g2 == glLinkProgram(g1, program, o.lOK, o.lLog)
                      g3 == Call(g2, "getProgramParameter", <<program, "LINK_STATUS">>)
                  IN IF ~LinkStatus(g3, program)
                       THEN LET g4 == Call(g3, "getProgramInfoLog", <<program>>)
                                err == LinkMessage(ProgramInfoLog(g3, program))
                            IN Thrown(Call(g4, "console.error", <<err>>), err)
                       ELSE Returned(g3, program)

initShaderProgram(g, vertexShaderSource, fragmentShaderSource, o) ==
  LET v == loadShaders(g, "VERTEX_SHADER", vertexShaderSource, o.vOK, o.vLog)
  IN IF v.threw THEN v
     ELSE LET f == loadShaders(v.g, "FRAGMENT_SHADER", fragmentShaderSource, o.fOK, o.fLog)
          IN IF f.threw THEN f
             ELSE LET program == f.g.nextId
                      g1 == glAttachShader(glAttachShader(glCreateProgram(f.g), program, v.ret), program, f.ret)
                      g2 == glLinkProgram(g1, program, o.lOK, o.lLog)
                      g3 == Call(g2, "getProgramParameter", <<program, "LINK_STATUS">>)
                  IN IF ~LinkStatus(g3, program)
                       THEN LET g4 == Call(g3, "getProgramInfoLog", <<program>>)
                                err == LinkMessage(ProgramInfoLog(g3, program))
                            IN Thrown(Call(g4, "console.error", <<err>>), err)
                       ELSE Returned(g3, program)

\* initBuffers(gl); ok is whether the backend accepts the upload.
\* Fault variant: six values uploaded with DYNAMIC_DRAW.
initBuffersDynamic(g, ok) ==
  LET positionBuffer == g.nextId
      g1 == glBindBuffer(glCreateBuffer(g), "ARRAY_BUFFER", positionBuffer)
      g2 == glBufferData(g1, "ARRAY_BUFFER", SubSeq(positions, 1, 6), "DYNAMIC_DRAW", ok)
  IN Returned(g2, [position |-> positionBuffer])

initBuffers(g, ok) ==
  LET positionBuffer == g.nextId
      g1 == glBindBuffer(glCreateBuffer(g), "ARRAY_BUFFER", positionBuffer)
      g2 == glBufferData(g1, "ARRAY_BUFFER", positions, "STATIC_DRAW", ok)
  IN Returned(g2, [position |-> positionBuffer])

\* The fixed-function set-up and attribute binding that open drawScene.
DrawPrologue(g, info, bufs) ==
  LET g1 == Call(Call(g, "clearColor", <<0, 0, 0, 1>>), "clearDepth", <<1>>)
      g2 == Call(Call(g1, "enable", <<"DEPTH_TEST">>), "depthFunc", <<"LEQUAL">>)
      g3 == Call(g2, "clear", <<{"COLOR_BUFFER_BIT", "DEPTH_BUFFER_BIT"}>>)
      g4 == glBindBuffer(g3, "ARRAY_BUFFER", bufs.position)
      g5 == glVertexAttribPointer(g4, info.attribLocations.vertexPosition,
                                  numComponents, "FLOAT", FALSE, stride, offset)
  IN glEnableVertexAttribArray(g5, info.attribLocations.vertexPosition)

\* drawScene(gl, programInfo, buffers); o holds Math.random's three draws and
\* whether the backend accepts the uniform uploads and the draw.  The two
\* matrices are named, not computed.
\* Fault variant: useProgram after the uniform uploads.
drawSceneLateUseProgram(g, info, bufs, o) ==
  LET g1 == DrawPrologue(g, info, bufs)
      g2 == glUniformMatrix4fv(g1, info.uniformLocations.projectionMatrix, FALSE, "projectionMatrix", o.uniformOK)
      g3 == glUniformMatrix4fv(g2, info.uniformLocations.modelViewMatrix, FALSE, "modelViewMatrix", o.uniformOK)
      colour == randomColour(o.rnd)
      g4 == glUniform3f(g3, info.uniformLocations.colorMatrix, colour.R, colour.G, colour.B, o.uniformOK)
      g5 == glUseProgram(g4, info.program)
  IN Returned(glDrawArrays(g5, "TRIANGLE_STRIP", DrawFirst, DrawCount, o.drawOK), 0)

\* Fault variant: the error flag is checked before the draw.
drawSceneChecked(g, info, bufs, o) ==
  LET g1 == DrawPrologue(g, info, bufs)
      g2 == glUseProgram(g1, info.program)
      g3 == glUniformMatrix4fv(g2, info.uniformLocations.projectionMatrix, FALSE, "projectionMatrix", o.uniformOK)
      g4 == glUniformMatrix4fv(g3, info.uniformLocations.modelViewMatrix, FALSE, "modelViewMatrix", o.uniformOK)
      colour == randomColour(o.rnd)
      g5 == glUniform3f(g4, info.uniformLocations.colorMatrix, colour.R, colour.G, colour.B, o.uniformOK)
  IN IF g5.error # "NO_ERROR" THEN Thrown(g5, <<"drawScene failed">>)
     ELSE Returned(glDrawArrays(g5, "TRIANGLE_STRIP", DrawFirst, DrawCount, o.drawOK), 0)

\* Fault variant: two TRIANGLES draws instead of one strip.
drawSceneTwoTriangles(g, info, bufs, o) ==
  LET g1 == DrawPrologue(g, info, bufs)
      g2 == glUseProgram(g1, info.program)
      g3 == glUniformMatrix4fv(g2, info.uniformLocations.projectionMatrix, FALSE, "projectionMatrix", o.uniformOK)
      g4 == glUniformMatrix4fv(g3, info.uniformLocations.modelViewMatrix, FALSE, "modelViewMatrix", o.uniformOK)
      colour == randomColour(o.rnd)
      g5 == glUniform3f(g4, info.uniformLocations.colorMatrix, colour.R, colour.G, colour.B, o.uniformOK)
      g6 == glDrawArrays(g5, "TRIANGLES", DrawFirst, DrawCount - 1, o.drawOK)
  IN Returned(glDrawArrays(g6, "TRIANGLES", DrawFirst + 1, DrawCount - 1, o.drawOK), 0)

drawScene(g, info, bufs, o) ==
  LET g1 == DrawPrologue(g, info, bufs)
      g2 == glUseProgram(g1, info.program)
      g3 == glUniformMatrix4fv(g2, info.uniformLocations.projectionMatrix, FALSE, "projectionMatrix", o.uniformOK)
      g4 == glUniformMatrix4fv(g3, info.uniformLocations.modelViewMatrix, FALSE, "modelViewMatrix", o.uniformOK)
      colour == randomColour(o.rnd)
      g5 == glUniform3f(g4, info.uniformLocations.colorMatrix, colour.R, colour.G, colour.B, o.uniformOK)
  IN Returned(glDrawArrays(g5, "TRIANGLE_STRIP", DrawFirst, DrawCount, o.drawOK), 0)

----------------------------------------------------------------------------
(* The top-level scripts *)

\* The context as canvas.getContext('webgl') hands it over.
NewContext ==
  [calls |-> <<>>, nextId |-> 1, error |-> "NO_ERROR",
   shaders |-> <<>>, compiled |-> <<>>, deletedShaders |-> {}, programs |-> <<>>, buffers |-> <<>>,
   arrayBuffer |-> 0, enabledAttribs |-> {}, currentProgram |-> 0,
   uniforms |-> <<>>, frames |-> 0]

NoProgramInfo ==
  [program |-> 0, attribLocations |-> [vertexPosition |-> -1], uniformLocations |-> <<>>]

CompileLinkOracles ==
  [vOK : BOOLEAN, vLog : InfoLogs, fOK : BOOLEAN, fLog : InfoLogs, lOK : BOOLEAN, lLog : InfoLogs]

DrawOracles ==
  [rnd : [1 .. 3 -> 0 .. RandDenom - 1], uniformOK : BOOLEAN, drawOK : BOOLEAN]

Init ==
  /\ variant \in Variants
  /\ pc = "initShaderProgram"
  /\ gl = NewContext
  /\ shaderProgram = 0
  /\ programInfo = NoProgramInfo
  /\ buffers = [position |-> 0]
  /\ error = <<>>

\* const shaderProgram = initShaderProgram(gl, vertexShader, fragmentShader);
\* an uncaught Error ends the script.
InitShaderProgramStep ==
  /\ pc = "initShaderProgram"
  /\ \E o \in CompileLinkOracles :
       LET r == initShaderProgram(gl, vertexShader, fragmentShader, o)
       IN /\ gl' = r.g
          /\ pc' = IF r.threw THEN "thrown" ELSE "programInfo"
          /\ error' = r.msg
          /\ shaderProgram' = IF r.threw THEN shaderProgram ELSE r.ret
  /\ UNCHANGED <<variant, programInfo, buffers>>

\* The location queries that build programInfo.
QueryLocations(g, program, names) ==
  LET g1 == glGetAttribLocation(g, program, "aVertexPosition")
      g2 == glGetUniformLocation(g1, program, "uProjectionMatrix")
      g3 == glGetUniformLocation(g2, program, "uModelViewMatrix")
  IN IF "colorMatrix" \in names THEN glGetUniformLocation(g3, program, "colorMatrix") ELSE g3

\* const programInfo = {...} of src/main.js, where the script ends.
MainProgramInfoStep ==
  /\ variant = "main"
  /\ pc = "programInfo"
  /\ \E a \in AttribLocations, active \in SUBSET UniformNames("main") :
       /\ gl' = QueryLocations(gl, shaderProgram, UniformNames("main"))
       /\ programInfo' =
            [program |-> shaderProgram,
             attribLocations |-> [vertexPosition |-> a],
             uniformLocations |->
               [projectionMatrix |-> UniformLocation(active, "uProjectionMatrix"),
                modelViewMatrix |-> UniformLocation(active, "uModelViewMatrix")]]
  /\ pc' = "done"
  /\ UNCHANGED <<variant, shaderProgram, buffers, error>>

\* const programInfo = {...} of the colour-uniform script.
ColourProgramInfoStep ==
  /\ variant = "colour"
  /\ pc = "programInfo"
  /\ \E a \in AttribLocations, active \in SUBSET UniformNames("colour") :
       /\ gl' = QueryLocations(gl, shaderProgram, UniformNames("colour"))
       /\ programInfo' =
            [program |-> shaderProgram,
             attribLocations |-> [vertexPosition |-> a],
             uniformLocations |->
               [projectionMatrix |-> UniformLocation(active, "uProjectionMatrix"),
                modelViewMatrix |-> UniformLocation(active, "uModelViewMatrix"),
                colorMatrix |-> UniformLocation(active, "colorMatrix")]]
  /\ pc' = "initBuffers"
  /\ UNCHANGED <<variant, shaderProgram, buffers, error>>

\* const buffers = initBuffers(gl);
InitBuffersStep ==
  /\ variant = "colour"
  /\ pc = "initBuffers"
  /\ \E ok \in BOOLEAN :
       LET r == initBuffers(gl, ok)
       IN /\ gl' = r.g
          /\ pc' = IF r.threw THEN "thrown" ELSE "drawScene"
          /\ error' = r.msg
          /\ buffers' = IF r.threw THEN buffers ELSE r.ret
  /\ UNCHANGED <<variant, shaderProgram, programInfo>>

\* drawScene(gl, programInfo, buffers); the last statement of the script.
DrawSceneStep ==
  /\ variant = "colour"
  /\ pc = "drawScene"
  /\ \E o \in DrawOracles :
       LET r == drawScene(gl, programInfo, buffers, o)
       IN /\ gl' = r.g
          /\ pc' = IF r.threw THEN "thrown" ELSE "done"
          /\ error' = r.msg
  /\ UNCHANGED <<variant, shaderProgram, programInfo, buffers>>

Next ==
  \/ InitShaderProgramStep
  \/ MainProgramInfoStep
  \/ ColourProgramInfoStep
  \/ InitBuffersStep
  \/ DrawSceneStep

Spec == Init /\ [][Next]_vars

----------------------------------------------------------------------------
(* Properties *)

\* The places in the call record of the calls to fn, and how many there are.
Indices(fn) == {i \in DOMAIN gl.calls : gl.calls[i].fn = fn}

Count(fn) == Cardinality(Indices(fn))

\* The names of the recorded calls from place i on.
NamesFrom(i) == [k \in 1 .. Len(gl.calls) - i + 1 |-> gl.calls[i + k - 1].fn]

Contains(msg, log) == \E i \in DOMAIN msg : msg[i] = log

FailedShaders == {s \in DOMAIN gl.compiled : ~gl.compiled[s].ok}

UnlinkedPrograms == {p \in DOMAIN gl.programs : ~gl.programs[p].linked}

LinkSucceeded == \E p \in DOMAIN gl.programs : gl.programs[p].linked

LocationQueries == Indices("getAttribLocation") \cup Indices("getUniformLocation")

\* C1: in both scripts a run whose shaders compile and whose program links makes
\* exactly one drawArrays call before the script finishes, and never more than one.
C1_RendersExactlyOnce ==
  /\ Count("drawArrays") <= 1
  /\ pc = "done" => Count("drawArrays") = 1

\* C2: initialising and calling drawScene once records exactly one drawArrays call,
\* drawArrays(TRIANGLE_STRIP, 0, 4), and no other draw call; nothing is drawn before.
C2_SingleTriangleStripDraw ==
  variant = "colour" =>
    /\ Count("drawElements") = 0
    /\ pc # "done" => Count("drawArrays") = 0
    /\ pc = "done" =>
         /\ Count("drawArrays") = 1
         /\ \A i \in Indices("drawArrays") : gl.calls[i].args = <<"TRIANGLE_STRIP", 0, 4>>

C2_Witness ==
  /\ variant = "colour"
  /\ pc = "done"
  /\ Count("drawArrays") = 1
  /\ gl.frames = 1

\* C3: when a stage fails to compile, loadShaders throws an Error whose message
\* contains that shader's info log, having deleted the shader it created; the run
\* is over: no program is created or linked, a failed vertex stage leaves the
\* fragment shader uncreated, no buffer is created and nothing is drawn.
C3_CompileFailureAborts ==
  \A s \in FailedShaders :
    /\ pc = "thrown"
    /\ Contains(error, gl.compiled[s].log)
    /\ \E i \in Indices("console.error") : gl.calls[i].args = <<error>>
    /\ s \in gl.deletedShaders
    /\ s \notin DOMAIN gl.shaders
    /\ \E i \in Indices("deleteShader") : gl.calls[i].args = <<s>>
    /\ Count("createProgram") = 0
    /\ Count("linkProgram") = 0
    /\ DOMAIN gl.programs = {}
    /\ gl.compiled[s].type = "VERTEX_SHADER" => Count("createShader") = 1
    /\ Count("createBuffer") = 0
    /\ Count("drawArrays") = 0
    /\ shaderProgram = 0

C3_Witness ==
  /\ pc = "thrown"
  /\ \E s \in FailedShaders :
       /\ gl.compiled[s].type = "FRAGMENT_SHADER"
       /\ s \in gl.deletedShaders
       /\ \E v \in DOMAIN gl.compiled : gl.compiled[v].ok /\ gl.compiled[v].log # gl.compiled[s].log

\* C4: when the link fails, initShaderProgram throws an Error whose message contains
\* the program's info log and returns no handle; no location is queried, no buffer
\* is created and nothing is drawn.  Locations are queried only after a link that
\* succeeded.
C4_LinkFailureAborts ==
  /\ \A p \in UnlinkedPrograms :
       /\ pc = "thrown"
       /\ Contains(error, gl.programs[p].log)
       /\ \E i \in Indices("console.error") : gl.calls[i].args = <<error>>
       /\ shaderProgram = 0
       /\ LocationQueries = {}
       /\ Count("createBuffer") = 0
       /\ Count("drawArrays") = 0
  /\ \A q \in LocationQueries :
       \E l \in Indices("linkProgram") :
         /\ l < q
         /\ gl.calls[l].args = <<gl.calls[q].args[1]>>
         /\ LinkStatus(gl, gl.calls[q].args[1])

C4_Witness ==
  /\ pc = "thrown"
  /\ UnlinkedPrograms # {}
  /\ \A s \in DOMAIN gl.compiled : gl.compiled[s].ok

\* C5: once a script has passed its initialisation, exactly one program and
\* exactly one vertex buffer exist, and neither is deleted, in both scripts.
C5_OneProgramOneBuffer ==
  (pc = "done" \/ pc = "drawScene") =>
    /\ Cardinality(DOMAIN gl.programs) = 1
    /\ Cardinality(DOMAIN gl.buffers) = 1
    /\ Count("deleteProgram") = 0
    /\ Count("deleteBuffer") = 0

\* The calls of one drawScene, in order.
DrawSceneOrder ==
  <<"clearColor", "clearDepth", "enable", "depthFunc", "clear", "bindBuffer",
    "vertexAttribPointer", "enableVertexAttribArray", "useProgram",
    "uniformMatrix4fv", "uniformMatrix4fv", "uniform3f", "drawArrays">>

UniformUploads == Indices("uniformMatrix4fv") \cup Indices("uniform3f")

\* C6: the calls of drawScene come in the required order, with the stated
\* arguments; no uniform is uploaded before useProgram, and drawArrays follows the
\* clear, the attribute binding and every uniform upload.
C6_DrawSceneCallOrder ==
  variant = "colour" =>
    /\ pc # "done" => Count("clearColor") = 0 /\ UniformUploads = {} /\ Count("useProgram") = 0
    /\ pc = "done" =>
         /\ Count("clearColor") = 1
         /\ \A c \in Indices("clearColor") :
              /\ NamesFrom(c) = DrawSceneOrder
              /\ gl.calls[c + 2].args = <<"DEPTH_TEST">>
              /\ gl.calls[c + 3].args = <<"LEQUAL">>
              /\ gl.calls[c + 4].args = <<{"COLOR_BUFFER_BIT", "DEPTH_BUFFER_BIT"}>>
              /\ gl.calls[c + 5].args = <<"ARRAY_BUFFER", buffers.position>>
              /\ gl.calls[c + 6].args =
                   <<programInfo.attribLocations.vertexPosition, 2, "FLOAT", FALSE, 0, 0>>
              /\ gl.calls[c + 7].args = <<programInfo.attribLocations.vertexPosition>>
              /\ gl.calls[c + 8].args = <<programInfo.program>>
         /\ \A u \in Indices("uniformMatrix4fv") : gl.calls[u].args[2] = FALSE
         /\ \A u \in UniformUploads : \E p \in Indices("useProgram") : p < u
         /\ \A d \in Indices("drawArrays") :
              /\ \A u \in UniformUploads : u < d
              /\ \A k \in Indices("clear") \cup Indices("vertexAttribPointer")
                            \cup Indices("enableVertexAttribArray") : k < d

C6_Witness ==
  /\ variant = "colour"
  /\ pc = "done"
  /\ DOMAIN gl.uniforms = {"uProjectionMatrix", "uModelViewMatrix", "colorMatrix"}
  /\ gl.currentProgram = programInfo.program
  /\ gl.frames = 1

\* C7: every channel uploaded with uniform3f is exactly 0 or exactly 1, whatever
\* Math.random returned.
C7_ChannelsAreZeroOrOne ==
  \A i \in Indices("uniform3f") :
    /\ Len(gl.calls[i].args) = 4
    /\ \A k \in 2 .. 4 : gl.calls[i].args[k] \in {0, 1}

C7_Witness ==
  \E i \in Indices("uniform3f") :
    /\ gl.calls[i].args[2] = 1
    /\ gl.calls[i].args[3] = 0
    /\ "colorMatrix" \in DOMAIN gl.uniforms
    /\ gl.uniforms["colorMatrix"][1] = 1

\* C8: after a successful link nothing makes the colour-uniform script throw or
\* stop: whatever the location queries answer and whether or not the upload, the
\* uniform uploads or the draw fail, it goes on through initBuffers and drawScene
\* and ends having called drawArrays.
C8_NothingCheckedAfterLink ==
  (variant = "colour" /\ LinkSucceeded) =>
    /\ pc # "thrown"
    /\ error = <<>>
    /\ Count("getError") = 0
    /\ pc # "done" => ENABLED Next
    /\ pc = "done" => Count("createBuffer") = 1 /\ Count("bufferData") = 1 /\ Count("drawArrays") = 1

C8_Witness ==
  /\ variant = "colour"
  /\ LinkSucceeded
  /\ pc = "done"
  /\ gl.error # "NO_ERROR"
  /\ programInfo.attribLocations.vertexPosition = -1
  /\ programInfo.uniformLocations.colorMatrix = "null"
  /\ gl.buffers[buffers.position].data = <<>>
  /\ gl.frames = 0
  /\ Count("drawArrays") = 1

C10_OnlyFailedShaderReleased ==
  /\ Count("deleteShader") <= 1
  /\ \A i \in Indices("deleteShader") :
       /\ gl.calls[i].args[1] \in FailedShaders
       /\ gl.deletedShaders = {gl.calls[i].args[1]}
  /\ Count("deleteShader") = 0 => gl.deletedShaders = {}
  /\ Count("deleteProgram") = 0
  /\ Count("detachShader") = 0
  /\ Count("deleteBuffer") = 0
  /\ pc = "thrown" =>
       /\ \A s \in DOMAIN gl.compiled : gl.compiled[s].ok => s \in DOMAIN gl.shaders
       /\ \A p \in UnlinkedPrograms :
            /\ Cardinality(gl.programs[p].attached) = 2
            /\ gl.programs[p].attached \subseteq DOMAIN gl.shaders

C10_Witness ==
  /\ pc = "thrown"
  /\ Count("deleteShader") = 1
  /\ \E v \in DOMAIN gl.shaders : gl.shaders[v].type = "VERTEX_SHADER" /\ gl.shaders[v].compiled
  /\ \E f \in FailedShaders : gl.compiled[f].type = "FRAGMENT_SHADER"

====
